---- MODULE Spec2Model ----
(***************************************************************************)
(* Model of comp.py: a Streamlit script that loads "Sold And Stats.csv",   *)
(* cleans three columns, derives Price/SqFt, splits the table by Style     *)
(* Code, shows means and a premium, charts, a sorted table and a CSV       *)
(* download.  One behaviour is a sequence of script runs (renders) over a  *)
(* fixed source file, with the st.cache_data memo shared between runs.     *)
(*                                                                         *)
(* Text is a sequence of one-character strings.  A cell of a DataFrame is  *)
(* a record whose field k is its kind: "str" (object dtype, text in s),    *)
(* "int" (int64, value n), "float" (float64, the rational n/d in lowest    *)
(* terms, d > 0), "inf" (float64 infinity of sign n) or "nan" (float64     *)
(* NaN, pandas' missing marker).  float64 rounding is not modelled: finite *)
(* arithmetic is exact rational arithmetic.                                *)
(***************************************************************************)
EXTENDS FiniteSets, Integers, Sequences, TLC

VARIABLES
    file,        \* the source file "Sold And Stats.csv"
    cache,       \* the st.cache_data memo of load_data
    pc,          \* position of the current script run
    emitted,     \* elements sent to the page in the current run, in order
    df,          \* df = load_data()
    one_story,   \* df[df['Style Code'] == '10 - 1 Story']
    two_story,   \* df[df['Style Code'] == '12 - 2 Story']
    metric,      \* value shown by each st.metric, by label
    df_display,  \* the sorted table of the raw data viewer
    csv          \* the text handed to st.download_button

vars == <<file, cache, pc, emitted, df, one_story, two_story, metric, df_display, csv>>

\* Largest number of data rows of a modelled source file.
MaxRows == 2

(***************************************************************************)
(* Cell values and float64 arithmetic                                      *)
(***************************************************************************)
Str(s) == [k |-> "str", s |-> s]
IntV(n) == [k |-> "int", n |-> n, d |-> 1]
NaN == [k |-> "nan"]
Inf(sign) == [k |-> "inf", n |-> sign]

Abs(n) == IF n < 0 THEN -n ELSE n

RECURSIVE GCD(_, _)
GCD(a, b) == IF b = 0 THEN a ELSE GCD(b, a % b)

\* The float64 n/d, d # 0, in lowest terms with a positive denominator.
FloatV(n, d) ==
    LET g == GCD(Abs(n), Abs(d))
        s == IF d < 0 THEN -1 ELSE 1
    IN  [k |-> "float", n |-> (s * n) \div g, d |-> (s * d) \div g]

IsFinite(v) == v.k \in {"int", "float"}
IsNaN(v) == v.k = "nan"
Sign(n) == IF n > 0 THEN 1 ELSE IF n < 0 THEN -1 ELSE 0

\* a + b
Add(a, b) ==
    IF IsNaN(a) \/ IsNaN(b) THEN NaN
    ELSE IF a.k = "inf" /\ b.k = "inf" THEN (IF a.n = b.n THEN a ELSE NaN)
    ELSE IF a.k = "inf" THEN a
    ELSE IF b.k = "inf" THEN b
    ELSE FloatV(a.n * b.d + b.n * a.d, a.d * b.d)

\* a - b
Sub(a, b) ==
    IF IsNaN(b) THEN NaN
    ELSE IF b.k = "inf" THEN Add(a, Inf(-b.n))
    ELSE Add(a, FloatV(-b.n, b.d))

\* a * b
Mul(a, b) ==
    IF IsNaN(a) \/ IsNaN(b) THEN NaN
    ELSE IF a.k = "inf" \/ b.k = "inf"
         THEN (IF Sign(a.n) * Sign(b.n) = 0 THEN NaN ELSE Inf(Sign(a.n) * Sign(b.n)))
    ELSE FloatV(a.n * b.n, a.d * b.d)

\* a / b as numpy divides float64 values: x/0 is an infinity, 0/0 is NaN,
\* nothing is raised.  The divisors of this program are never negative.
Div(a, b) ==
    IF IsNaN(a) \/ IsNaN(b) THEN NaN
    ELSE IF b.k = "inf" THEN (IF a.k = "inf" THEN NaN ELSE FloatV(0, 1))
    ELSE IF b.n = 0 THEN (IF a.n = 0 THEN NaN ELSE Inf(Sign(a.n)))
    ELSE IF a.k = "inf" THEN Inf(a.n * Sign(b.n))
    ELSE FloatV(a.n * b.d, a.d * b.n)

(***************************************************************************)
(* Text <-> number conversions                                             *)
(***************************************************************************)
Digits == <<"0", "1", "2", "3", "4", "5", "6", "7", "8", "9">>
IsDigit(c) == \E i \in 1..10 : Digits[i] = c
DigitVal(c) == (CHOOSE i \in 1..10 : Digits[i] = c) - 1

IsIntText(s) == Len(s) > 0 /\ \A i \in 1..Len(s) : IsDigit(s[i])

\* digits, one ".", digits, with a digit somewhere: "6.0", "6.", ".5"
IsFloatText(s) ==
    \E p \in 1..Len(s) :
        /\ s[p] = "."
        /\ Len(s) > 1
        /\ \A i \in 1..Len(s) : i # p => IsDigit(s[i])

RECURSIVE ParseInt(_)
ParseInt(s) ==
    IF s = <<>> THEN 0
    ELSE 10 * ParseInt(SubSeq(s, 1, Len(s) - 1)) + DigitVal(s[Len(s)])

RECURSIVE Pow10(_)
Pow10(e) == IF e = 0 THEN 1 ELSE 10 * Pow10(e - 1)

ParseFloat(s) ==
    LET p == CHOOSE i \in 1..Len(s) : s[i] = "."
        whole == SubSeq(s, 1, p - 1)
        frac == SubSeq(s, p + 1, Len(s))
    IN  FloatV(ParseInt(whole) * Pow10(Len(frac)) + ParseInt(frac), Pow10(Len(frac)))

RECURSIVE NatToText(_)
NatToText(n) ==
    IF n < 10 THEN <<Digits[n + 1]>>
    ELSE NatToText(n \div 10) \o <<Digits[(n % 10) + 1]>>

\* The decimal digits of rem/d after the point, for a terminating expansion.
RECURSIVE FracDigits(_, _)
FracDigits(rem, d) ==
    IF rem = 0 THEN <<>>
    ELSE <<Digits[((10 * rem) \div d) + 1]>> \o FracDigits((10 * rem) % d, d)

\* repr() of a finite non-negative float64 with a terminating expansion:
\* 6.0 is "6.0", 1.5 is "1.5".
FloatRepr(v) ==
    NatToText(v.n \div v.d) \o <<".">> \o
        (IF v.n % v.d = 0 THEN <<"0">> ELSE FracDigits(v.n % v.d, v.d))

\* str() of a cell, as Series.astype(str) applies it.
ValToText(v) ==
    CASE v.k = "str" -> v.s
      [] v.k = "int" -> NatToText(v.n)
      [] v.k = "float" -> FloatRepr(v)
      [] v.k = "inf" -> <<"i", "n", "f">>
      [] v.k = "nan" -> <<"n", "a", "n">>

\* One cell of a column given to pd.to_numeric(errors='coerce').
ToNumericCell(v) ==
    IF v.k # "str" THEN v
    ELSE IF IsIntText(v.s) THEN IntV(ParseInt(v.s))
    ELSE IF IsFloatText(v.s) THEN ParseFloat(v.s)
    ELSE NaN

\* int64 -> float64
AsFloat(v) == IF v.k = "int" THEN FloatV(v.n, 1) ELSE v

(***************************************************************************)
(* DataFrames: [columns |-> set of labels, rows |-> sequence of rows],     *)
(* a row being a function from the labels to cells.                        *)
(***************************************************************************)
EmptyDF == [columns |-> {}, rows |-> <<>>]

Column(d, c) == [i \in 1..Len(d.rows) |-> d.rows[i][c]]

\* d[c] = col
SetColumn(d, c, col) ==
    [columns |-> d.columns \cup {c},
     rows |-> [i \in 1..Len(d.rows) |->
                  [x \in d.columns \cup {c} |-> IF x = c THEN col[i] ELSE d.rows[i][x]]]]

\* d[mask], rows kept in their order
RECURSIVE SelectRows(_, _)
SelectRows(rows, mask) ==
    IF rows = <<>> THEN <<>>
    ELSE (IF Head(mask) THEN <<Head(rows)>> ELSE <<>>) \o SelectRows(Tail(rows), Tail(mask))

Filter(d, mask) == [columns |-> d.columns, rows |-> SelectRows(d.rows, mask)]

\* The columns read_csv parses from text; Style Code labels are kept whole.
TextColumns == {"Listing Number", "Selling Price", "Square Footage"}

\* Cell texts read_csv takes for a missing value (of its default list, the
\* two that the modelled alphabet can spell).
NAValues == {<<>>, <<"n", "a", "n">>}

\* read_csv's dtype inference for one column of cell texts: int64 when
\* every cell is an integer, float64 when every cell is a number or missing,
\* object otherwise; a missing cell is NaN.
InferColumn(texts) ==
    LET n == Len(texts)
        present == {i \in 1..n : texts[i] \notin NAValues}
    IN  IF \A i \in present : IsIntText(texts[i])
        THEN (IF present = 1..n
              THEN [i \in 1..n |-> IntV(ParseInt(texts[i]))]
              ELSE [i \in 1..n |-> IF i \in present
                                   THEN FloatV(ParseInt(texts[i]), 1) ELSE NaN])
        ELSE IF \A i \in present : IsIntText(texts[i]) \/ IsFloatText(texts[i])
        THEN [i \in 1..n |-> IF i \in present
                             THEN AsFloat(ToNumericCell(Str(texts[i]))) ELSE NaN]
        ELSE [i \in 1..n |-> IF i \in present THEN Str(texts[i]) ELSE NaN]

\* pd.read_csv of a readable file f
read_csv(f) ==
    LET n == Len(f.rows)
        col(c) == InferColumn([i \in 1..n |-> f.rows[i][c]])
    IN  [columns |-> f.header,
         rows |-> [i \in 1..n |->
                      [c \in f.header |->
                          IF c \in TextColumns THEN col(c)[i]
                          ELSE IF c = "Style Code" THEN Str(f.rows[i][c])
                          ELSE f.rows[i][c]]]]

\* Mutant of StripCommas: only the first comma is removed.
StripFirstComma(s) ==
    IF \E i \in 1..Len(s) : s[i] = ","
    THEN LET p == CHOOSE i \in 1..Len(s) : s[i] = "," /\ \A j \in 1..(i - 1) : s[j] # ","
         IN  SubSeq(s, 1, p - 1) \o SubSeq(s, p + 1, Len(s))
    ELSE s

\* text.replace(',', '')
StripCommas(s) == SelectSeq(s, LAMBDA ch : ch # ",")

\* Mutant of replace: without regex=True only a cell that is exactly ","
\* is replaced.
replace_whole_cell(col) ==
    [i \in 1..Len(col) |->
        IF col[i].k = "str" /\ col[i].s = <<",">> THEN Str(<<>>) ELSE col[i]]

\* Series.replace(',', '', regex=True): only text cells are touched
replace(col) ==
    [i \in 1..Len(col) |-> IF col[i].k = "str" THEN Str(StripCommas(col[i].s)) ELSE col[i]]

\* pd.to_numeric(col, errors='coerce'): int64 when every cell is an integer,
\* float64 otherwise.
to_numeric(col) ==
    LET parsed == [i \in 1..Len(col) |-> ToNumericCell(col[i])]
    IN  IF \A i \in 1..Len(col) : parsed[i].k = "int" THEN parsed
        ELSE [i \in 1..Len(col) |-> AsFloat(parsed[i])]

\* Series.astype(str)
astype_str(col) == [i \in 1..Len(col) |-> Str(ValToText(col[i]))]

\* Series / Series
truediv(a, b) == [i \in 1..Len(a) |-> Div(a[i], b[i])]

\* The cleaning steps of load_data, lines 38-43, on a table that has the
\* three columns.
Normalize(d) ==
    LET d1 == SetColumn(d, "Selling Price", to_numeric(replace(Column(d, "Selling Price"))))
        d2 == SetColumn(d1, "Square Footage", to_numeric(replace(Column(d1, "Square Footage"))))
        d3 == SetColumn(d2, "Listing Number", replace(astype_str(Column(d2, "Listing Number"))))
    IN  SetColumn(d3, "Price/SqFt",
                  truediv(Column(d3, "Selling Price"), Column(d3, "Square Footage")))

\* Mutant of LoadRaises: errors='raise', a cell that is no number raises.
LoadRaisesOnBadCell(f) ==
    IF ~f.readable \/ ~(TextColumns \subseteq f.header) THEN TRUE
    ELSE \E i \in 1..Len(f.rows) : \E c \in {"Selling Price", "Square Footage"} :
            /\ f.rows[i][c] \notin NAValues
            /\ IsNaN(ToNumericCell(Str(StripCommas(f.rows[i][c]))))

\* load_data raises when the file cannot be read (line 36) or a column it
\* indexes is absent (KeyError, lines 38-41).
LoadRaises(f) == ~f.readable \/ ~(TextColumns \subseteq f.header)

\* The value load_data returns when it does not raise.
load_data(f) == Normalize(read_csv(f))

(***************************************************************************)
(* Partition, statistics, raw data view, export                            *)
(***************************************************************************)
\* Mutant of StyleIs: str.contains('Story'), which every label satisfies.
StyleContainsStory(d, code) ==
    [i \in 1..Len(d.rows) |-> d.rows[i]["Style Code"].k = "str"]

\* df['Style Code'] == code
StyleIs(d, code) ==
    [i \in 1..Len(d.rows) |->
        d.rows[i]["Style Code"].k = "str" /\ d.rows[i]["Style Code"].s = code]

\* df['Style Code'].isin(['10 - 1 Story', '12 - 2 Story'])
StyleIsIn(d) ==
    [i \in 1..Len(d.rows) |->
        /\ d.rows[i]["Style Code"].k = "str"
        /\ d.rows[i]["Style Code"].s \in {"10 - 1 Story", "12 - 2 Story"}]

RECURSIVE SumFilled(_)
SumFilled(col) ==
    IF col = <<>> THEN FloatV(0, 1)
    ELSE Add(IF IsNaN(Head(col)) THEN FloatV(0, 1) ELSE Head(col), SumFilled(Tail(col)))

\* Mutant of mean: the sum of the present values over the number of rows.
mean_over_rows(col) ==
    IF Len(col) = 0 THEN NaN ELSE Div(SumFilled(col), IntV(Len(col)))

\* Series.mean(): NaN cells are masked out of the sum and of the count; with
\* nothing left the mean is NaN.
mean(col) ==
    LET count == Len(col) - Cardinality({i \in 1..Len(col) : IsNaN(col[i])})
    IN  IF count = 0 THEN NaN ELSE Div(SumFilled(col), IntV(count))

rambler_price_sqft == mean(Column(one_story, "Price/SqFt"))
two_story_price_sqft == mean(Column(two_story, "Price/SqFt"))
premium ==
    Mul(Div(Sub(rambler_price_sqft, two_story_price_sqft), two_story_price_sqft), IntV(100))

\* a >= b for cells that are not NaN
Geq(a, b) == a = b \/ (LET diff == Sub(a, b) IN ~IsNaN(diff) /\ diff.n >= 0)

\* sort_values('Selling Price', ascending=False): the rows by falling
\* price, NaN last.  The default sort is not stable, so every order of
\* rows with equal keys is a possible result.
SortedByPrice(d) ==
    LET n == Len(d.rows)
        key(i) == d.rows[i]["Selling Price"]
        perms == {p \in [1..n -> 1..n] : \A i, j \in 1..n : i # j => p[i] # p[j]}
        sorted(p) == \A i \in 1..n : \A j \in 1..n :
                        i < j => \/ IsNaN(key(p[j]))
                                 \/ (~IsNaN(key(p[i])) /\ Geq(key(p[i]), key(p[j])))
    IN  {[columns |-> d.columns, rows |-> [i \in 1..n |-> d.rows[p[i]]]] :
            p \in {q \in perms : sorted(q)}}

\* One cell of to_csv's text: numbers by repr, NaN as the empty cell.
CsvCell(v) == IF IsNaN(v) THEN <<>> ELSE ValToText(v)

\* d.to_csv(index=False), as a file that read_csv can read.  The text of
\* the Price/SqFt column is not spelled out: load_data never parses it, line
\* 43 overwrites the column.
to_csv(d) ==
    [readable |-> TRUE,
     header |-> d.columns,
     rows |-> [i \in 1..Len(d.rows) |->
                  [c \in d.columns |->
                      IF c \in TextColumns THEN CsvCell(d.rows[i][c])
                      ELSE IF c = "Style Code" THEN d.rows[i][c].s
                      ELSE d.rows[i][c]]]]

NoCsv == [readable |-> FALSE, header |-> {}, rows |-> <<>>]

(***************************************************************************)
(* Source files                                                            *)
(***************************************************************************)
RequiredColumns == {"Listing Number", "Selling Price", "Square Footage", "Style Code"}

RawRow(ln, sp, sf, sc) ==
    [c \in RequiredColumns |->
        CASE c = "Listing Number" -> ln
          [] c = "Selling Price" -> sp
          [] c = "Square Footage" -> sf
          [] c = "Style Code" -> sc]

\* (Selling Price, Square Footage) cell texts: plain, with a thousands
\* separator, zero, unparseable, empty.
PriceAreaTexts ==
    { <<<<"6">>, <<"3">>>>, <<<<"1", ",", "2">>, <<"3">>>>, <<<<"0">>, <<"3">>>>,
      <<<<"6">>, <<"0">>>>, <<<<"0">>, <<"0">>>>,
      <<<<"x">>, <<"3">>>>, <<<<"6">>, <<"x">>>>, <<<<>>, <<"3">>>> }

\* Listing Number cell texts: with a separator, with a leading zero, empty.
IdTexts == { <<"1", ",", "2", ",", "3">>, <<"0", "7">>, <<>> }

\* The data rows a modelled source file is made of.
RawRows ==
    {RawRow(<<"3">>, pa[1], pa[2], sc) :
        pa \in PriceAreaTexts, sc \in {"10 - 1 Story", "12 - 2 Story"}}
    \cup {RawRow(ln, <<"6">>, <<"3">>, sc) :
        ln \in IdTexts, sc \in {"10 - 1 Story", "12 - 2 Story"}}
    \cup {RawRow(<<"3">>, <<"6">>, <<"3">>, "16 - 1 Story w/Bsmnt.")}

\* A readable file with every required column and 1 to MaxRows rows.
GoodFiles ==
    {[readable |-> TRUE, header |-> RequiredColumns, rows |-> rs] :
        rs \in UNION {[1..n -> RawRows] : n \in 1..MaxRows}}

\* A file that cannot be read, or a one-row file lacking one required column.
BadFiles ==
    {NoCsv} \cup
    {[readable |-> TRUE, header |-> RequiredColumns \ {c},
      rows |-> <<[x \in RequiredColumns \ {c} |-> r[x]]>>] :
        c \in RequiredColumns, r \in RawRows}

(***************************************************************************)
(* The script                                                              *)
(***************************************************************************)
NoCache == [set |-> FALSE, df |-> EmptyDF]

Init ==
    /\ file \in GoodFiles \cup BadFiles
    /\ cache = NoCache
    /\ pc = "idle"
    /\ emitted = <<>>
    /\ df = EmptyDF
    /\ one_story = EmptyDF
    /\ two_story = EmptyDF
    /\ metric = <<>>
    /\ df_display = EmptyDF
    /\ csv = NoCsv

\* A script run starts with a fresh namespace and page, and emits the
\* title, the criteria expander and the disclaimer (lines 8-31).
Begin ==
    /\ pc \in {"idle", "done", "failed"}
    /\ pc' = "load"
    /\ emitted' = <<"title", "expander", "warning">>
    /\ df' = EmptyDF
    /\ one_story' = EmptyDF
    /\ two_story' = EmptyDF
    /\ metric' = <<>>
    /\ df_display' = EmptyDF
    /\ csv' = NoCsv
    /\ UNCHANGED <<file, cache>>

\* line 48, memo miss: load_data runs and its result is memoized
LoadMiss ==
    /\ pc = "load"
    /\ ~cache.set
    /\ ~LoadRaises(file)
    /\ df' = load_data(file)
    /\ cache' = [set |-> TRUE, df |-> load_data(file)]
    /\ pc' = "filter"
    /\ UNCHANGED <<file, emitted, one_story, two_story, metric, df_display, csv>>

\* line 48, memo miss: load_data raises, nothing is memoized, the run ends
LoadFail ==
    /\ pc = "load"
    /\ ~cache.set
    /\ LoadRaises(file)
    /\ pc' = "failed"
    /\ UNCHANGED <<file, cache, emitted, df, one_story, two_story, metric, df_display, csv>>

\* line 48, memo hit: st.cache_data hands out a copy of the memoized table
LoadHit ==
    /\ pc = "load"
    /\ cache.set
    /\ df' = cache.df
    /\ pc' = "filter"
    /\ UNCHANGED <<file, cache, emitted, one_story, two_story, metric, df_display, csv>>

\* lines 51-52
Partition ==
    /\ pc = "filter"
    /\ "Style Code" \in df.columns
    /\ one_story' = Filter(df, StyleIs(df, "10 - 1 Story"))
    /\ two_story' = Filter(df, StyleIs(df, "12 - 2 Story"))
    /\ pc' = "metrics"
    /\ UNCHANGED <<file, cache, emitted, df, metric, df_display, csv>>

\* line 51 raises KeyError when the table has no Style Code column
PartitionFail ==
    /\ pc = "filter"
    /\ "Style Code" \notin df.columns
    /\ pc' = "failed"
    /\ UNCHANGED <<file, cache, emitted, df, one_story, two_story, metric, df_display, csv>>

\* lines 55-73: the seven st.metric elements
Metrics ==
    /\ pc = "metrics"
    /\ metric' =
        [l \in {"Number of Ramblers", "Number of 2-Story", "Avg Rambler Price",
                "Avg 2-Story Price", "Avg Rambler $/SqFt", "Avg 2-Story $/SqFt",
                "Rambler Premium"} |->
            CASE l = "Number of Ramblers" -> IntV(Len(one_story.rows))
              [] l = "Number of 2-Story" -> IntV(Len(two_story.rows))
              [] l = "Avg Rambler Price" -> mean(Column(one_story, "Selling Price"))
              [] l = "Avg 2-Story Price" -> mean(Column(two_story, "Selling Price"))
              [] l = "Avg Rambler $/SqFt" -> rambler_price_sqft
              [] l = "Avg 2-Story $/SqFt" -> two_story_price_sqft
              [] l = "Rambler Premium" -> premium]
    /\ emitted' = emitted \o <<"metrics">>
    /\ pc' = "charts"
    /\ UNCHANGED <<file, cache, df, one_story, two_story, df_display, csv>>

\* lines 76-162: two box plots and the scatter plot
Charts ==
    /\ pc = "charts"
    /\ emitted' = emitted \o <<"fig_price", "fig_ppsf", "fig_scatter">>
    /\ pc' = "raw"
    /\ UNCHANGED <<file, cache, df, one_story, two_story, metric, df_display, csv>>

\* Mutant of RawData: the table itself is filtered and sorted in place.
RawDataInPlace ==
    /\ pc = "raw"
    /\ \E sorted \in SortedByPrice(Filter(df, StyleIsIn(df))) :
          /\ df_display' = SetColumn(sorted, "Listing Number",
                                     replace(astype_str(Column(sorted, "Listing Number"))))
          /\ df' = df_display'
    /\ emitted' = emitted \o <<"subheader", "dataframe">>
    /\ pc' = "export"
    /\ UNCHANGED <<file, cache, one_story, two_story, metric, csv>>

\* lines 165-169: the raw data viewer
RawData ==
    /\ pc = "raw"
    /\ \E sorted \in SortedByPrice(Filter(df, StyleIsIn(df))) :
          df_display' = SetColumn(sorted, "Listing Number",
                                  replace(astype_str(Column(sorted, "Listing Number"))))
    /\ emitted' = emitted \o <<"subheader", "dataframe">>
    /\ pc' = "export"
    /\ UNCHANGED <<file, cache, df, one_story, two_story, metric, csv>>

\* lines 172-178: the download button
Export ==
    /\ pc = "export"
    /\ csv' = to_csv(Filter(df, StyleIsIn(df)))
    /\ emitted' = emitted \o <<"download_button">>
    /\ pc' = "done"
    /\ UNCHANGED <<file, cache, df, one_story, two_story, metric, df_display>>

Next ==
    \/ Begin
    \/ LoadMiss
    \/ LoadFail
    \/ LoadHit
    \/ Partition
    \/ PartitionFail
    \/ Metrics
    \/ Charts
    \/ RawData
    \/ Export

Spec == Init /\ [][Next]_vars

(***************************************************************************)
(* Properties                                                              *)
(***************************************************************************)
Loaded == pc \in {"filter", "metrics", "charts", "raw", "export", "done"}
Shown == pc \in {"charts", "raw", "export", "done"}

\* The formula of the premium on two means.
PremiumOf(r, t) == Mul(Div(Sub(r, t), t), IntV(100))

\* C1: the premium shown is the formula on the two mean $/SqFt values when
\* the two-story mean is present and non-zero, and otherwise is a marker of
\* "undefined" that is neither NaN nor an infinity.
C1_PremiumOrUndefinedMarker ==
    Shown =>
        LET r == metric["Avg Rambler $/SqFt"]
            t == metric["Avg 2-Story $/SqFt"]
            p == metric["Rambler Premium"]
        IN  IF IsFinite(t) /\ t.n # 0 THEN p = PremiumOf(r, t)
            ELSE p.k \notin {"nan", "inf"}

\* C2: in every loaded record Price/SqFt is missing exactly when the price
\* is missing, the area is missing or the area is 0, and is price / area
\* otherwise.
C2_PricePerAreaMissingIff ==
    file \in GoodFiles =>
        \A i \in 1..Len(cache.df.rows) :
            LET sp == cache.df.rows[i]["Selling Price"]
                sf == cache.df.rows[i]["Square Footage"]
                ppa == cache.df.rows[i]["Price/SqFt"]
            IN  IF IsNaN(sp) \/ IsNaN(sf) \/ sf.n = 0 THEN IsNaN(ppa)
                ELSE ppa = FloatV(sp.n * sf.d, sp.d * sf.n)

RECURSIVE SumOf(_)
SumOf(col) == IF col = <<>> THEN FloatV(0, 1) ELSE Add(Head(col), SumOf(Tail(col)))

\* The sum of the present values over their number; missing with none.
PresentMean(col) ==
    LET present == SelectSeq(col, LAMBDA v : ~IsNaN(v))
    IN  IF present = <<>> THEN NaN
        ELSE Div(SumOf(present), IntV(Len(present)))

\* C3: each count is the row count of its subset, and each mean is the sum
\* of the present values over the number of present values, missing when
\* the subset is empty or the field is missing in every row.
C3_MeanOverPresentValues ==
    Shown =>
        /\ metric["Number of Ramblers"].n = Len(one_story.rows)
        /\ metric["Number of 2-Story"].n = Len(two_story.rows)
        /\ metric["Avg Rambler Price"] = PresentMean(Column(one_story, "Selling Price"))
        /\ metric["Avg 2-Story Price"] = PresentMean(Column(two_story, "Selling Price"))
        /\ metric["Avg Rambler $/SqFt"] = PresentMean(Column(one_story, "Price/SqFt"))
        /\ metric["Avg 2-Story $/SqFt"] = PresentMean(Column(two_story, "Price/SqFt"))
        /\ \A l \in {"Avg Rambler Price", "Avg Rambler $/SqFt"} :
              (\A i \in 1..Len(one_story.rows) :
                  IsNaN(one_story.rows[i][IF l = "Avg Rambler Price"
                                          THEN "Selling Price" ELSE "Price/SqFt"]))
                  => IsNaN(metric[l])

\* A subset of two rows, one of them without Price/SqFt, with a finite mean.
C3_Witness ==
    /\ pc = "charts"
    /\ Len(one_story.rows) = 2
    /\ \E i \in 1..2 : IsNaN(one_story.rows[i]["Price/SqFt"])
    /\ IsFinite(metric["Avg Rambler $/SqFt"])
    /\ IsNaN(metric["Avg 2-Story $/SqFt"])

\* sub is the rows of full at the positions idx, in rising order
IsSubsequenceAt(sub, full, idx) ==
    \E f \in [1..Len(sub) -> 1..Len(full)] :
        /\ \A i, j \in 1..Len(sub) : i < j => f[i] < f[j]
        /\ {f[i] : i \in 1..Len(sub)} = idx
        /\ \A i \in 1..Len(sub) : sub[i] = full[f[i]]

\* C4: the two subsets are taken from disjoint sets of positions of the
\* full table, each in the table's order; a position is in the single-story
\* subset iff its style is '10 - 1 Story', in the two-story subset iff it is
\* '12 - 2 Story'; the full table keeps every row.
C4_DisjointOrderedPartition ==
    pc \in {"metrics", "charts", "raw", "export", "done"} =>
        LET n == Len(df.rows)
            idx(code) == {i \in 1..n : df.rows[i]["Style Code"] = Str(code)}
        IN  /\ idx("10 - 1 Story") \cap idx("12 - 2 Story") = {}
            /\ IsSubsequenceAt(one_story.rows, df.rows, idx("10 - 1 Story"))
            /\ IsSubsequenceAt(two_story.rows, df.rows, idx("12 - 2 Story"))
            /\ n = Len(file.rows)

\* A table of a single-story row and a row of another style: one subset of
\* one row, one empty subset.
C4_Witness ==
    /\ pc = "metrics"
    /\ Len(df.rows) = 2
    /\ Len(one_story.rows) = 1
    /\ Len(two_story.rows) = 0

\* The number a price or area text stands for once its commas are removed;
\* missing when what is left is no number.
NumberOfText(text) == AsFloat(ToNumericCell(Str(StripCommas(text))))

\* C5: for a file with the required columns load_data does not raise, and
\* returns one record per raw row in the same order, whose price and area
\* are each the number of their own raw text, or missing when that text is
\* no number.
C5_TotalRowPreserving ==
    file \in GoodFiles =>
        /\ pc # "failed"
        /\ cache.set =>
            /\ Len(cache.df.rows) = Len(file.rows)
            /\ \A i \in 1..Len(file.rows) :
                /\ cache.df.rows[i]["Style Code"] = Str(file.rows[i]["Style Code"])
                /\ AsFloat(cache.df.rows[i]["Selling Price"])
                      = NumberOfText(file.rows[i]["Selling Price"])
                /\ AsFloat(cache.df.rows[i]["Square Footage"])
                      = NumberOfText(file.rows[i]["Square Footage"])

\* A loaded two-row table whose second price did not parse and whose
\* second area, and first price with a separator, did.
C5_Witness ==
    /\ cache.set
    /\ Len(cache.df.rows) = 2
    /\ file.rows[1]["Selling Price"] = <<"1", ",", "2">>
    /\ file.rows[2]["Selling Price"] = <<"x">>
    /\ cache.df.rows[1]["Selling Price"] = FloatV(12, 1)
    /\ IsNaN(cache.df.rows[2]["Selling Price"])
    /\ cache.df.rows[2]["Square Footage"] = IntV(3)

\* C6: the loaded Listing Number is the raw text without its commas, and
\* the exported file carries that same text.
C6_IdentifierIsRawTextWithoutCommas ==
    (file \in GoodFiles /\ cache.set) =>
        /\ \A i \in 1..Len(file.rows) :
              cache.df.rows[i]["Listing Number"]
                  = Str(StripCommas(file.rows[i]["Listing Number"]))
        /\ pc = "done" =>
              LET kept == SelectRows(file.rows, StyleIsIn(df))
              IN  \A i \in 1..Len(kept) :
                      csv.rows[i]["Listing Number"] = StripCommas(kept[i]["Listing Number"])

\* C7: loading the exported file with load_data gives back the records of
\* the two-style table that was exported.
C7_ExportRoundTrip ==
    pc = "done" => load_data(csv).rows = Filter(df, StyleIsIn(df)).rows

\* C8: the cleaning steps of load_data applied to a loaded table give the
\* same table.
C8_NormalizeIdempotent ==
    (cache.set /\ TextColumns \subseteq file.header) => Normalize(cache.df) = cache.df

\* A loaded table with a Listing Number that had two commas, a price that
\* did not parse and a zero area.
C8_Witness ==
    /\ cache.set
    /\ Len(cache.df.rows) = 2
    /\ file.rows[1]["Listing Number"] = <<"1", ",", "2", ",", "3">>
    /\ cache.df.rows[1]["Listing Number"] = Str(<<"1", "2", "3">>)
    /\ IsNaN(cache.df.rows[2]["Selling Price"])

\* C9: once loaded, neither the table of the run nor the memoized table
\* is changed by any step of any run.
C9_LoadedTableNeverChanged ==
    [][/\ cache.set => cache' = cache
       /\ (Loaded /\ pc' # "load") => df' = df]_vars

\* A finished run whose sorted raw data view differs from the table.
C9_Witness ==
    /\ pc = "done"
    /\ df = cache.df
    /\ Len(df.rows) = 2
    /\ Len(df_display.rows) = 2
    /\ df_display.rows # df.rows

Structural(f) == ~f.readable \/ ~(RequiredColumns \subseteq f.header)

\* C10 as stated: a run that failed has emitted nothing.
C10_NoElementOnFailure ==
    pc = "failed" => emitted = <<>>

\* C10 amended: with an unreadable file or a missing required column the run
\* emits the title, the expander and the warning and nothing else, and
\* fails; with any other file no run fails.
C10_OnlyStaticHeaderOnFailure ==
    /\ Structural(file) =>
          /\ pc \in {"idle", "load", "filter", "failed"}
          /\ pc # "idle" => emitted = <<"title", "expander", "warning">>
    /\ pc = "failed" => Structural(file)

\* A failed run on a file without its Style Code column, after load_data
\* returned.
C10_Witness ==
    /\ pc = "failed"
    /\ cache.set
    /\ "Style Code" \notin file.header
    /\ Len(emitted) = 3

====
